---- MODULE Spec2Model ----
(***************************************************************************)
(* Grid search over exponential-smoothing configurations with walk-forward *)
(* validation (py-timeseries-ets-california-female-births.ipynb, cell 19   *)
(* and its driver cell 20).                                                *)
(*                                                                         *)
(* Python values are represented as follows.                               *)
(*   - a list is a sequence; the 0-based index i of the code is i+1 here;  *)
(*   - None in a trend/seasonal field is the string "None", None as a      *)
(*     seasonal period is NoPeriod;                                        *)
(*   - the float returned by measure_rmse, sqrt(sum of squares / n), is    *)
(*     the record [sq |-> sum of squares, n |-> n]; floats are compared by *)
(*     cross-multiplication (sqrt is strictly increasing);                 *)
(*   - a score_model result is [present |-> FALSE] padded (None) or        *)
(*     [present |-> TRUE, sq, n] (a float).                                *)
(* The statsmodels fit behind exp_smoothing_forecast is outside the        *)
(* repository: it is an unknown deterministic function of (config,         *)
(* history), whose value is chosen the first time it is called and kept in *)
(* the variable fits.                                                      *)
(***************************************************************************)
EXTENDS Integers, Sequences, FiniteSets, TLC

VARIABLES
    data,        \* the series handed to grid_search
    n_test,      \* the split point handed to grid_search
    cfg_list,    \* the candidate list handed to grid_search
    parallel,    \* the parallel flag of grid_search
    cores,       \* what cpu_count() returns on the host (called only when
                 \* parallel is set; 1 otherwise)
    pc,          \* position of the caller: "search", "returned", "completed" for
                 \* the driver of grid_search, "score" for a direct score_model call
    task,        \* per candidate: the score_model call (its locals and return value)
    done_order,  \* candidate indices in the order their score_model calls returned
    fits,        \* outcomes of the exp_smoothing_forecast calls made so far
    stdout,      \* lines printed so far
    scores,      \* value returned by grid_search
    seasonal,    \* argument of exp_smoothing_configs
    models       \* value returned by exp_smoothing_configs

vars == <<data, n_test, cfg_list, parallel, cores, pc, task, done_order, fits, stdout,
          scores, seasonal, models>>

\* ------------------------------------------------------------------ bounds
MaxLen == 3
MaxCand == 2
MaxSeasonal == 3
\* the largest host: cpu_count() is 1 or this
cpu_count == 2

\* Observations and forecasts.
Obs == {1, 2}

\* ------------------------------------------------------- Python primitives
Min(a, b) == IF a < b THEN a ELSE b
Max(a, b) == IF a > b THEN a ELSE b

\* seq[:stop]
SliceTo(seq, stop) ==
    LET n == Len(seq)
        k == IF stop < 0 THEN Max(n + stop, 0) ELSE Min(stop, n)
    IN  SubSeq(seq, 1, k)

\* seq[start:]
SliceFrom(seq, start) ==
    LET n == Len(seq)
        k == IF start < 0 THEN Max(n + start, 0) ELSE Min(start, n)
    IN  SubSeq(seq, k + 1, n)

RECURSIVE Concat(_)
Concat(ss) == IF ss = <<>> THEN <<>> ELSE Head(ss) \o Concat(Tail(ss))

\* all sequences over S of length at most n
SeqsUpTo(S, n) == UNION {[1..k -> S] : k \in 0..n}

\* -------------------------------------------------- exp_smoothing_configs
NoPeriod == 0

t_params == <<"add", "mul", "None">>
d_params == <<TRUE, FALSE>>
s_params == <<"add", "mul", "None">>
b_params == <<TRUE, FALSE>>
r_params == <<TRUE, FALSE>>

\* fault: the seasonal periods deduplicated before the loops
RECURSIVE Dedup(_)
Dedup(seq) ==
    IF seq = <<>> THEN <<>>
    ELSE LET rest == Dedup(SubSeq(seq, 1, Len(seq) - 1))
         IN  IF \E k \in 1..Len(rest) : rest[k] = seq[Len(seq)] THEN rest
             ELSE Append(rest, seq[Len(seq)])
exp_smoothing_configs_dedup(p_params) ==
    Concat([ti \in 1..Len(t_params) |->
      Concat([di \in 1..Len(d_params) |->
        Concat([si \in 1..Len(s_params) |->
          Concat([pi \in 1..Len(Dedup(p_params)) |->
            Concat([bi \in 1..Len(b_params) |->
              [ri \in 1..Len(r_params) |->
                 <<t_params[ti], d_params[di], s_params[si], Dedup(p_params)[pi],
                   b_params[bi], r_params[ri]>>]])])])])])

\* fault: the two innermost loops exchanged, bias removal outside the
\* power transform
exp_smoothing_configs_swapped(p_params) ==
    Concat([ti \in 1..Len(t_params) |->
      Concat([di \in 1..Len(d_params) |->
        Concat([si \in 1..Len(s_params) |->
          Concat([pi \in 1..Len(p_params) |->
            Concat([ri \in 1..Len(r_params) |->
              [bi \in 1..Len(b_params) |->
                 <<t_params[ti], d_params[di], s_params[si], p_params[pi],
                   b_params[bi], r_params[ri]>>]])])])])])

\* the six nested loops, each appending to models in iteration order
exp_smoothing_configs(p_params) ==
    Concat([ti \in 1..Len(t_params) |->
      Concat([di \in 1..Len(d_params) |->
        Concat([si \in 1..Len(s_params) |->
          Concat([pi \in 1..Len(p_params) |->
            Concat([bi \in 1..Len(b_params) |->
              [ri \in 1..Len(r_params) |->
                 <<t_params[ti], d_params[di], s_params[si], p_params[pi],
                   b_params[bi], r_params[ri]>>]])])])])])

\* repr() of the fields of a configuration, and str(cfg) of the list
ReprStr(x) == IF x = "None" THEN "None" ELSE "'" \o x \o "'"
ReprBool(x) == IF x THEN "True" ELSE "False"
ReprPeriod(x) == IF x = NoPeriod THEN "None" ELSE ToString(x)
str(cfg) ==
    "[" \o ReprStr(cfg[1]) \o ", " \o ReprBool(cfg[2]) \o ", " \o ReprStr(cfg[3])
        \o ", " \o ReprPeriod(cfg[4]) \o ", " \o ReprBool(cfg[5]) \o ", "
        \o ReprBool(cfg[6]) \o "]"

\* ---------------------------------------------------------- measure_rmse
None == [present |-> FALSE, sq |-> 0, n |-> 0]
Float(sq, n) == [present |-> TRUE, sq |-> sq, n |-> n]

RECURSIVE SumSq(_, _)
SumSq(actual, predicted) ==
    IF actual = <<>> THEN 0
    ELSE (Head(actual) - Head(predicted)) * (Head(actual) - Head(predicted))
         + SumSq(Tail(actual), Tail(predicted))

\* mean_squared_error rejects an empty sample with a ValueError
RmseRaises(actual, predicted) == Len(actual) = 0 \/ Len(actual) # Len(predicted)
measure_rmse(actual, predicted) == Float(SumSq(actual, predicted), Len(actual))

\* a < b for two floats sqrt(a.sq / a.n), sqrt(b.sq / b.n)
FloatLess(a, b) == a.sq * b.n < b.sq * a.n

\* ------------------------------------------------------ train_test_split
\* fault: the train partition taken from the front with a positive stop
train_test_split_front(d, n) == <<SliceTo(d, n), SliceFrom(d, 0 - n)>>

train_test_split(d, n) == <<SliceTo(d, 0 - n), SliceFrom(d, 0 - n)>>

\* ------------------------------------------------ exp_smoothing_forecast
\* Outcome of one call: a forecast yhat, or an exception of the fit.
Forecast(y) == [ok |-> TRUE, yhat |-> y]
FitError == [ok |-> FALSE, yhat |-> 0]

\* fault: a fit with randomized initialization, the same arguments may give
\* another outcome
exp_smoothing_forecast_random(history, config) ==
    IF history = <<>> THEN {FitError}
    ELSE {Forecast(y) : y \in Obs} \cup {FitError}

\* The outcomes a call can have: the one recorded for the same arguments if
\* there is one (the fit is deterministic); otherwise any forecast or a
\* failure, and only a failure on an empty history (nothing to fit).
exp_smoothing_forecast(history, config) ==
    IF <<config, history>> \in DOMAIN fits THEN {fits[<<config, history>>]}
    ELSE IF history = <<>> THEN {FitError}
    ELSE {Forecast(y) : y \in Obs} \cup {FitError}

Recorded(f, history, config, o) ==
    [k \in DOMAIN f \cup {<<config, history>>} |->
        IF k = <<config, history>> THEN o ELSE f[k]]

\* ----------------------------------------------- walk_forward_validation
\* fault: one history buffer for all evaluations, a call goes on with what
\* the calls before it left there
SeedHistoryShared(train) ==
    LET begun == {u \in DOMAIN task : task[u].st # "pending"}
    IN  IF begun = {} THEN train
        ELSE task[CHOOSE u \in begun :
                    \A v \in begun : Len(task[v].history) <= Len(task[u].history)].history

\* history = [x for x in train]
SeedHistory(train) == [k \in 1..Len(train) |-> train[k]]

\* fault: the forecast fed back into the history
ExtendHistoryWithForecast(history, test, i, yhat) == Append(history, yhat)

\* history.append(test[i])
ExtendHistory(history, test, i, yhat) == Append(history, test[i + 1])

\* ------------------------------------------------------------ score_model
Tasks == 1..Len(cfg_list)

\* a call not yet begun; st becomes "running", then "scored" (result is set
\* and the progress line, if any, is written; the call has not returned yet),
\* then "returned" (with ret); or "raised" (an exception left score_model,
\* nothing is returned), or it stays "stalled" in a fit that does not
\* terminate
Idle(cfg) ==
    [st |-> "pending", cfg |-> cfg, debug |-> FALSE, key |-> "", test |-> <<>>,
     history |-> <<>>, predictions |-> <<>>, i |-> 0, result |-> None,
     ret |-> <<"", None>>]

\* fault: the try/except wrapped around both branches
PropagatesNever(debug) == FALSE

\* an exception of walk_forward_validation leaves score_model only on the
\* debug branch, which has no try/except
Propagates(debug) == debug

\* fault: the error measured on the predictions made before the exception
PartialResult(test, predictions) ==
    IF predictions = <<>> THEN None
    ELSE measure_rmse(SubSeq(test, 1, Len(predictions)), predictions)

\* result as the except clause leaves it: still None (it assigns error)
ResultOnException(test, predictions) == None

\* the progress line of a present result
ProgressLine(key, result) == <<" > Model", key, result>>

\* fault: the line printed whatever the result
PrintedAlways(out, key, result) == Append(out, ProgressLine(key, result))

\* fault: the test written as truthiness, `if result:`
PrintedIfTruthy(out, key, result) ==
    IF result # None /\ result.sq # 0 THEN Append(out, ProgressLine(key, result)) ELSE out

\* score_model's tail: print when the result is present, return (key, result)
Printed(out, key, result) ==
    IF result # None THEN Append(out, ProgressLine(key, result)) ELSE out

\* ------------------------------------------------------------ grid_search
\* the number of score_model calls that may run at once:
\* Parallel(n_jobs=cpu_count()), or the list comprehension
Capacity == IF parallel THEN cores ELSE 1

\* the calls that occupy a worker: begun and not over ("stalled": inside a
\* fit that never returns)
Running == {t \in Tasks : task[t].st \in {"running", "scored", "stalled"}}

\* the calls up to candidate t, in list order, that are not over
Unfinished(t) == {u \in Tasks : u <= t /\ task[u].st \notin {"returned", "raised"}}

\* fault: a worker is lost with each call that fails
CanStartWorkersLost(t) ==
    /\ task[t].st = "pending"
    /\ Cardinality(Unfinished(t)) <= Capacity
    /\ Cardinality(Running)
         + Cardinality({u \in Tasks : task[u].st = "returned" /\ task[u].ret[2] = None})
         < Capacity

\* The calls are handed to the workers in the order of cfg_list, each worker
\* taking the next one when it is free, but a worker that holds a call may
\* enter score_model after another worker has entered, or finished, a later
\* one. A call can begin when a worker can hold it: with it, at most Capacity
\* of the calls up to it are not over. With one worker this is list order.
CanStart(t) ==
    /\ task[t].st = "pending"
    /\ Cardinality(Unfinished(t)) <= Capacity
    /\ Cardinality(Running) < Capacity

\* fault: the results taken in the order in which the calls returned
GatherAsCompleted(tk, order) == [k \in 1..Len(order) |-> tk[order[k]].ret]

\* fault: the results kept in a collection without duplicates
GatherDistinct(tk, order) == Dedup([t \in 1..Len(order) |-> tk[t].ret])

\* executor(tasks), and the list comprehension: the results in the order of
\* cfg_list, whatever the order in which the calls returned
Gather(tk, order) == [t \in 1..Len(order) |-> tk[t].ret]

\* fault: the first failed call ends the batch
AllReturnedOrOneFailed(tk) ==
    \/ \A t \in DOMAIN tk : tk[t].st = "returned"
    \/ \E t \in DOMAIN tk : tk[t].st = "returned" /\ tk[t].ret[2] = None

\* fault: no join, the results are taken once every call has been handed
\* to a worker
AllDispatched(tk) == \A t \in DOMAIN tk : tk[t].st # "pending"

\* every dispatched call has returned
AllReturned(tk) == \A t \in DOMAIN tk : tk[t].st = "returned"

\* fault: the test written as truthiness, `if r[1]`
RemoveFalsy(scs) == SelectSeq(scs, LAMBDA r : r[2] # None /\ r[2].sq # 0)

\* [r for r in scores if r[1] != None]
RemoveEmpty(scs) == SelectSeq(scs, LAMBDA r : r[2] # None)

\* fault: descending order
InsertByErrorDescending(sorted, r) ==
    LET k == Cardinality({j \in 1..Len(sorted) : ~FloatLess(sorted[j][2], r[2])})
    IN  SubSeq(sorted, 1, k) \o <<r>> \o SubSeq(sorted, k + 1, Len(sorted))

\* fault: an unstable sort, equal errors in reverse order
InsertByErrorUnstable(sorted, r) ==
    LET k == Cardinality({j \in 1..Len(sorted) : FloatLess(sorted[j][2], r[2])})
    IN  SubSeq(sorted, 1, k) \o <<r>> \o SubSeq(sorted, k + 1, Len(sorted))

\* list.sort(key=lambda tup: tup[1]): stable, ascending
InsertByError(sorted, r) ==
    LET k == Cardinality({j \in 1..Len(sorted) : ~FloatLess(r[2], sorted[j][2])})
    IN  SubSeq(sorted, 1, k) \o <<r>> \o SubSeq(sorted, k + 1, Len(sorted))

RECURSIVE SortByError(_)
SortByError(scs) ==
    IF scs = <<>> THEN <<>>
    ELSE CHOOSE out \in {InsertByError(sorted, scs[Len(scs)]) :
                            sorted \in {SortByError(SubSeq(scs, 1, Len(scs) - 1))}} : TRUE

\* ------------------------------------------------------------------ inputs
\* two configurations of exp_smoothing_configs()
CfgPool == {<<"mul", FALSE, "None", NoPeriod, TRUE, TRUE>>,
            <<"add", FALSE, "None", NoPeriod, FALSE, TRUE>>}

\* seasonal periods a caller may list
PeriodPool == {NoPeriod, 4, 7, 12}

\* the series: observations that alternate, of every length up to MaxLen
SeriesPool ==
    {[k \in 1..n |-> IF k % 2 = 1 THEN a ELSE 3 - a] : n \in 0..MaxLen, a \in Obs}

Begun == <<"Model fitting has begun!">>
Completed == <<"Model fitting completed!">>

\* ------------------------------------------------------------ grid search
\* The driver cell has printed its first line and calls grid_search.
Init ==
    /\ data \in SeriesPool
    /\ n_test \in 0..(Len(data) + 1)
    /\ cfg_list \in SeqsUpTo(CfgPool, MaxCand)
    /\ parallel \in BOOLEAN
    /\ cores \in IF parallel THEN {1, cpu_count} ELSE {1}
    /\ pc = "search"
    /\ task = [t \in 1..Len(cfg_list) |-> Idle(cfg_list[t])]
    /\ done_order = <<>>
    /\ fits = <<>>
    /\ stdout = <<Begun>>
    /\ scores = <<>>
    /\ seasonal = <<>>
    /\ models = <<>>

\* A score_model call begins: result = None, key = str(cfg); it enters
\* walk_forward_validation, which splits the data and seeds the history.
StartTask(t) ==
    /\ pc \in {"search", "score"}
    /\ CanStart(t)
    /\ LET split == train_test_split(data, n_test)
       IN  task' = [task EXCEPT ![t] =
                [@ EXCEPT !.st = "running",
                          !.key = str(task[t].cfg),
                          !.test = split[2],
                          !.history = SeedHistory(split[1]),
                          !.predictions = <<>>,
                          !.i = 0]]
    /\ UNCHANGED <<data, n_test, cfg_list, parallel, cores, pc, done_order, fits, stdout,
                   scores, seasonal, models>>

\* One iteration of the loop over the test set. A forecast is stored and the
\* history extended; an exception leaves walk_forward_validation and is caught
\* by score_model, whose result stays None, so that nothing is printed; with
\* debug set nothing catches it and it leaves score_model.
ForecastStep(t) ==
    /\ pc \in {"search", "score"}
    /\ task[t].st = "running"
    /\ task[t].i < Len(task[t].test)
    /\ \E o \in exp_smoothing_forecast(task[t].history, task[t].cfg) :
         /\ fits' = Recorded(fits, task[t].history, task[t].cfg, o)
         /\ IF o.ok
            THEN /\ task' = [task EXCEPT ![t] =
                        [@ EXCEPT !.predictions = Append(@, o.yhat),
                                  !.history = ExtendHistory(task[t].history,
                                                  task[t].test, task[t].i, o.yhat),
                                  !.i = @ + 1]]
                 /\ UNCHANGED <<done_order, stdout>>
            ELSE IF Propagates(task[t].debug)
            THEN /\ task' = [task EXCEPT ![t] = [@ EXCEPT !.st = "raised"]]
                 /\ UNCHANGED <<done_order, stdout>>
            ELSE LET result == ResultOnException(task[t].test, task[t].predictions)
                 IN  /\ task' = [task EXCEPT ![t] =
                            [@ EXCEPT !.st = "scored", !.result = result]]
                     /\ stdout' = Printed(stdout, task[t].key, result)
                     /\ UNCHANGED done_order
    /\ UNCHANGED <<data, n_test, cfg_list, parallel, cores, pc, scores, seasonal, models>>

\* The loop is over: the error is measured and returned to score_model, which
\* prints the progress line. An exception of measure_rmse is caught like one
\* of the fit.
FinishTask(t) ==
    /\ pc \in {"search", "score"}
    /\ task[t].st = "running"
    /\ task[t].i = Len(task[t].test)
    /\ IF RmseRaises(task[t].test, task[t].predictions) /\ Propagates(task[t].debug)
       THEN /\ task' = [task EXCEPT ![t] = [@ EXCEPT !.st = "raised"]]
            /\ UNCHANGED <<done_order, stdout>>
       ELSE LET result ==
                    IF RmseRaises(task[t].test, task[t].predictions)
                    THEN ResultOnException(task[t].test, task[t].predictions)
                    ELSE measure_rmse(task[t].test, task[t].predictions)
            IN  /\ task' = [task EXCEPT ![t] =
                       [@ EXCEPT !.st = "scored", !.result = result]]
                /\ stdout' = Printed(stdout, task[t].key, result)
                /\ UNCHANGED done_order
    /\ UNCHANGED <<data, n_test, cfg_list, parallel, cores, pc, fits, scores, seasonal,
                   models>>

\* return (key, result): the call is over, after its line has been written;
\* calls of other workers may print and return in between
ReturnTask(t) ==
    /\ pc \in {"search", "score"}
    /\ task[t].st = "scored"
    /\ task' = [task EXCEPT ![t] =
            [@ EXCEPT !.st = "returned", !.ret = <<task[t].key, task[t].result>>]]
    /\ done_order' = Append(done_order, t)
    /\ UNCHANGED <<data, n_test, cfg_list, parallel, cores, pc, fits, stdout, scores,
                   seasonal, models>>

\* All calls have returned: grid_search collects the results, removes the
\* empty ones, sorts and returns.
Rank ==
    /\ pc = "search"
    /\ AllReturned(task)
    /\ scores' = SortByError(RemoveEmpty(Gather(task, done_order)))
    /\ pc' = "returned"
    /\ UNCHANGED <<data, n_test, cfg_list, parallel, cores, task, done_order, fits, stdout,
                   seasonal, models>>

\* The driver cell goes on after grid_search has returned.
DriverCompleted ==
    /\ pc = "returned"
    /\ stdout' = Append(stdout, Completed)
    /\ pc' = "completed"
    /\ UNCHANGED <<data, n_test, cfg_list, parallel, cores, task, done_order, fits, scores,
                   seasonal, models>>

Next ==
    \/ \E t \in Tasks : StartTask(t)
    \/ \E t \in Tasks : ForecastStep(t)
    \/ \E t \in Tasks : FinishTask(t)
    \/ \E t \in Tasks : ReturnTask(t)
    \/ Rank
    \/ DriverCompleted

Spec == Init /\ [][Next]_vars

\* The search with every fit terminating and the workers scheduled fairly:
\* a step that stays possible is eventually taken. (In sequential mode
\* there is one thread, which runs on.)
FairSpec == Spec /\ WF_vars(Next)

\* -------------------------------------------------- configuration space
InitConfigs ==
    /\ seasonal \in SeqsUpTo(PeriodPool, MaxSeasonal)
    /\ models = <<>>
    /\ pc = "configs"
    /\ data = <<>>
    /\ n_test = 0
    /\ cfg_list = <<>>
    /\ parallel = FALSE
    /\ cores = 1
    /\ task = <<>>
    /\ done_order = <<>>
    /\ fits = <<>>
    /\ stdout = <<>>
    /\ scores = <<>>

\* cfg_list = exp_smoothing_configs(seasonal)
CallConfigs ==
    /\ pc = "configs"
    /\ models' = exp_smoothing_configs(seasonal)
    /\ pc' = "configured"
    /\ UNCHANGED <<data, n_test, cfg_list, parallel, cores, task, done_order, fits, stdout,
                   scores, seasonal>>

NextConfigs == CallConfigs

SpecConfigs == InitConfigs /\ [][NextConfigs]_vars

\* ------------------------------------------------- score_model, directly
\* One configuration is scored by a direct call score_model(data, n_test,
\* cfg, debug), with or without debug.
InitScore ==
    /\ data \in SeriesPool
    /\ n_test \in 0..(Len(data) + 1)
    /\ cfg_list \in [1..1 -> CfgPool]
    /\ parallel = FALSE
    /\ cores = 1
    /\ pc = "score"
    /\ \E d \in BOOLEAN : task = <<[Idle(cfg_list[1]) EXCEPT !.debug = d]>>
    /\ done_order = <<>>
    /\ fits = <<>>
    /\ stdout = <<>>
    /\ scores = <<>>
    /\ seasonal = <<>>
    /\ models = <<>>

NextScore ==
    \/ \E t \in Tasks : StartTask(t)
    \/ \E t \in Tasks : ForecastStep(t)
    \/ \E t \in Tasks : FinishTask(t)
    \/ \E t \in Tasks : ReturnTask(t)

SpecScore == InitScore /\ [][NextScore]_vars

\* ------------------------------------------- grid search with a stalled fit
\* A parallel search, on a host of one core or of cpu_count cores, over one
\* candidate more than the largest pool, in which the fit of at most one
\* call never returns.
InitStall ==
    /\ data \in {d \in SeriesPool : Len(d) \in 2..3}
    /\ n_test = 1
    /\ cfg_list \in [1..(cpu_count + 1) -> CfgPool]
    /\ parallel = TRUE
    /\ cores \in {1, cpu_count}
    /\ pc = "search"
    /\ task = [t \in 1..Len(cfg_list) |-> Idle(cfg_list[t])]
    /\ done_order = <<>>
    /\ fits = <<>>
    /\ stdout = <<Begun>>
    /\ scores = <<>>
    /\ seasonal = <<>>
    /\ models = <<>>

\* The fit called at this step of candidate t never returns. The fit being
\* deterministic, it is a call no other candidate makes and whose outcome
\* is not known yet; there is no timeout and no cancellation.
Stall(t) ==
    /\ pc = "search"
    /\ task[t].st = "running"
    /\ task[t].i < Len(task[t].test)
    /\ task[t].history # <<>>
    /\ <<task[t].cfg, task[t].history>> \notin DOMAIN fits
    /\ \A u \in Tasks : u # t => /\ task[u].st # "stalled"
                                 /\ cfg_list[u] # cfg_list[t]
    /\ task' = [task EXCEPT ![t] = [@ EXCEPT !.st = "stalled"]]
    /\ UNCHANGED <<data, n_test, cfg_list, parallel, cores, pc, done_order, fits, stdout,
                   scores, seasonal, models>>

\* the steps the workers and the orchestrator take when they can
Progress ==
    \/ \E t \in Tasks : StartTask(t)
    \/ \E t \in Tasks : ForecastStep(t)
    \/ \E t \in Tasks : FinishTask(t)
    \/ \E t \in Tasks : ReturnTask(t)
    \/ Rank
    \/ DriverCompleted

NextStall ==
    \/ Progress
    \/ \E t \in Tasks : Stall(t)

\* the worker processes are scheduled by the operating system: a step that
\* stays possible is eventually taken
SpecStall == InitStall /\ [][NextStall]_vars /\ WF_vars(Progress)

\* ================================================================ properties
ValidSplit == 0 < n_test /\ n_test < Len(data)
Returned == pc \in {"returned", "completed"}
Present(t) == task[t].st = "returned" /\ task[t].ret[2] # None

\* the score_model call of candidate t ended in an exception: the fit raised
\* inside the loop, or measure_rmse raised after it
Failed(t) ==
    /\ task[t].st = "returned"
    /\ \/ task[t].i < Len(task[t].test)
       \/ RmseRaises(task[t].test, task[t].predictions)

\* C1: for 0 < n_test < len(series), a walk_forward_validation run that
\* completes (returns an error) has produced exactly n_test predictions and
\* its history has exactly len(series) elements.
C1_PredictionsAndHistory ==
    ValidSplit =>
        \A t \in Tasks :
            Present(t) => /\ Len(task[t].predictions) = n_test
                          /\ Len(task[t].history) = Len(data)

C1_Witness ==
    /\ Len(data) = 3
    /\ n_test = 2
    /\ \E t \in Tasks : Present(t) /\ Len(task[t].predictions) = 2

\* C2: with a split point 0 < n_test <= len(series), the history before
\* step i is the first len(series) - n_test + i elements of the series,
\* whatever the forecasts were: it is extended with the observation, never
\* with the forecast, and is one element longer after each step.
C2_HistoryIsGroundTruth ==
    (0 < n_test /\ n_test <= Len(data)) =>
        \A t \in Tasks :
            task[t].st # "pending" =>
                /\ task[t].i = Len(task[t].predictions)
                /\ task[t].history = SubSeq(data, 1, Len(data) - n_test + task[t].i)

C2_Witness ==
    /\ ValidSplit
    /\ \E t \in Tasks :
         /\ task[t].st = "running"
         /\ task[t].i = 1
         /\ task[t].i < Len(task[t].test)
         /\ task[t].predictions[1] # task[t].test[1]

\* C3: the list grid_search returns is non-decreasing in error and holds no
\* record whose error is None.
C3_RankedAscendingNoNone ==
    Returned =>
        /\ \A j \in 1..Len(scores) : scores[j][2] # None
        /\ \A j, k \in 1..Len(scores) :
              j < k => ~FloatLess(scores[k][2], scores[j][2])

C3_Witness ==
    /\ Returned
    /\ Len(scores) = 2
    /\ FloatLess(scores[1][2], scores[2][2])
    /\ task[1].ret = scores[2]
    /\ task[2].ret = scores[1]

\* What grid_search(parallel=False) returns when every fit has the outcome
\* recorded in f: the candidates scored one after the other in list order.
RECURSIVE WalkForward(_, _, _, _, _, _)
WalkForward(history, test, i, predictions, cfg, f) ==
    IF i = Len(test)
    THEN IF RmseRaises(test, predictions) THEN None
         ELSE measure_rmse(test, predictions)
    ELSE LET o == f[<<cfg, history>>]
         IN  IF o.ok
             THEN WalkForward(Append(history, test[i + 1]), test, i + 1,
                              Append(predictions, o.yhat), cfg, f)
             ELSE None

SequentialScore(cfg, f) ==
    LET split == train_test_split(data, n_test)
    IN  <<str(cfg), WalkForward(split[1], split[2], 0, <<>>, cfg, f)>>

SequentialRanking(f) ==
    SortByError(SelectSeq([t \in Tasks |-> SequentialScore(cfg_list[t], f)],
                          LAMBDA r : r[2] # None))

\* C4: for the same series, candidates, n_test and the same fits, the list
\* returned with parallel=True is the list returned with parallel=False,
\* record for record, whatever the order in which the workers finished.
C4_ParallelEqualsSequential ==
    Returned => scores = SequentialRanking(fits)

C4_Witness ==
    /\ Returned
    /\ parallel
    /\ done_order = <<2, 1>>
    /\ Len(scores) = 2
    /\ scores[1][1] # scores[2][1]
    /\ scores[1][2] = scores[2][2]

\* C5: an exception during the evaluation of a candidate becomes the
\* record (key, None); it never ends the batch: when grid_search returns,
\* every candidate has been evaluated and every present result is in the
\* returned list.
C5_FailureIsolated ==
    /\ \A t \in Tasks : Failed(t) => task[t].ret = <<str(cfg_list[t]), None>>
    /\ Returned =>
          \A t \in Tasks :
              /\ task[t].st = "returned"
              /\ ~Failed(t) =>
                    \E j \in 1..Len(scores) :
                        /\ scores[j][1] = str(cfg_list[t])
                        /\ scores[j][2] = measure_rmse(task[t].test,
                                                       task[t].predictions)

C5_Witness ==
    /\ Returned
    /\ ValidSplit
    /\ Len(cfg_list) = 2
    /\ cfg_list[1] # cfg_list[2]
    /\ Failed(1)
    /\ task[1].i = 1
    /\ ~Failed(2)
    /\ scores = <<task[2].ret>>

\* C6 (as claimed): with n_test >= len(series) the search stops before any
\* evaluation: no fit is ever called, and a search over candidates does not
\* return a ranking as if the input had been valid.
C6_FailsFastOnEmptyTrain ==
    n_test >= Len(data) =>
        /\ DOMAIN fits = {}
        /\ cfg_list # <<>> => ~Returned

\* C7: for a non-empty candidate list the returned list is empty exactly
\* when every candidate's evaluation failed.
C7_EmptyIffAllFailed ==
    (Returned /\ cfg_list # <<>>) =>
        (scores = <<>> <=> \A t \in Tasks : Failed(t))

C7_Witness ==
    /\ Returned
    /\ ValidSplit
    /\ Len(cfg_list) = 2
    /\ \A t \in Tasks : Failed(t)
    /\ \E t \in Tasks : task[t].i > 0
    /\ scores = <<>>

\* C8 (as claimed): when every candidate failed, grid_search does not return
\* normally to the driver (stated here for a valid split point, so that the
\* failures are failures of the fits).
C8_AllFailedNotReturned ==
    (ValidSplit /\ cfg_list # <<>> /\ \A t \in Tasks : Failed(t)) => ~Returned

\* C9: records of equal error stand in the returned list in the order of
\* their candidates in cfg_list: for every error in the list, the keys of
\* the records with that error are the keys of the candidates with that
\* error, in list order.
SameError(a, b) == a # None /\ b # None /\ ~FloatLess(a, b) /\ ~FloatLess(b, a)
KeysOf(recs) == [k \in 1..Len(recs) |-> recs[k][1]]
C9_StableTieBreak ==
    Returned =>
        \A j \in 1..Len(scores) :
            KeysOf(SelectSeq(scores, LAMBDA r : SameError(r[2], scores[j][2])))
              = KeysOf(SelectSeq([t \in Tasks |-> <<str(cfg_list[t]), task[t].ret[2]>>],
                                 LAMBDA r : SameError(r[2], scores[j][2])))

C9_Witness ==
    /\ Returned
    /\ Len(scores) = 2
    /\ cfg_list[1] # cfg_list[2]
    /\ SameError(scores[1][2], scores[2][2])
    /\ scores[1][2].sq > 0
    /\ scores[1][1] = str(cfg_list[1])

\* C10: exp_smoothing_configs returns 3 * 2 * 3 * len(seasonal) * 2 * 2
\* configurations (72 for one seasonal period), and each combination of
\* field values occurs once for each occurrence of its period in seasonal.
Occurrences(seq, x) == Cardinality({k \in 1..Len(seq) : seq[k] = x})
C10_FullProduct ==
    pc = "configured" =>
        /\ Len(models) = 3 * 2 * 3 * Len(seasonal) * 2 * 2
        /\ Len(seasonal) = 1 => Len(models) = 72
        /\ \A t \in {"add", "mul", "None"}, s \in {"add", "mul", "None"},
              d \in BOOLEAN, b \in BOOLEAN, r \in BOOLEAN, p \in PeriodPool :
              Occurrences(models, <<t, d, s, p, b, r>>) = Occurrences(seasonal, p)

C10_Witness ==
    /\ pc = "configured"
    /\ Len(seasonal) = 2
    /\ seasonal[1] = seasonal[2]
    /\ Len(models) = 144

\* the score_model call of candidate t is over and an exception was raised in
\* it, whether or not it was caught
Excepted(t) ==
    /\ task[t].st \in {"returned", "raised"}
    /\ \/ task[t].i < Len(task[t].test)
       \/ RmseRaises(task[t].test, task[t].predictions)

ProgressLines == SelectSeq(stdout, LAMBDA l : Len(l) = 3)

\* score_model has set its result for candidate t and is past its print
\* statement; it may not have returned yet
Scored(t) == task[t].st \in {"scored", "returned"}
HasResult(t) == Scored(t) /\ task[t].result # None

\* C11: with debug set, an exception raised during the evaluation leaves
\* score_model: the call returns no (key, result) record and prints nothing.
C11_DebugPropagates ==
    \A t \in Tasks :
        (task[t].debug /\ Excepted(t)) =>
            /\ task[t].st = "raised"
            /\ task[t].ret = <<"", None>>
            /\ ProgressLines = <<>>

C11_Witness ==
    /\ ValidSplit
    /\ task[1].debug
    /\ task[1].st = "raised"
    /\ task[1].i = 1
    /\ Len(task[1].predictions) = 1

\* C12: when the fit fails at a step of the loop, however many predictions
\* were made before, no error is computed from them: the result of that
\* configuration is None and no record of it is in the returned list.
C12_NoPartialResult ==
    \A t \in Tasks :
        (Scored(t) /\ task[t].i < Len(task[t].test)) =>
            /\ task[t].result = None
            /\ task[t].st = "returned" => task[t].ret = <<str(cfg_list[t]), None>>
            /\ Returned => \A j \in 1..Len(scores) : scores[j][1] # task[t].key

C12_Witness ==
    /\ Returned
    /\ \E t \in Tasks :
         /\ task[t].st = "returned"
         /\ Len(task[t].test) = 2
         /\ task[t].i = 1
         /\ Len(task[t].predictions) = 1
         /\ task[t].ret[2] = None

\* C13: one progress line is printed for each candidate whose result is
\* present and none for a failed one. The line is written before the call
\* returns, so that during the search the lines are those of the calls past
\* their print statement; when grid_search returns, these are the calls that
\* returned a result, and the number of progress lines is the length of the
\* returned list.
C13_OneLinePerPresentResult ==
    /\ Len(ProgressLines) = Cardinality({t \in Tasks : HasResult(t)})
    /\ \A t \in Tasks :
          HasResult(t) =>
              Occurrences(ProgressLines, ProgressLine(task[t].key, task[t].result))
                = Cardinality({u \in Tasks : /\ HasResult(u)
                                            /\ task[u].key = task[t].key
                                            /\ task[u].result = task[t].result})
    /\ Returned =>
          /\ Len(ProgressLines) = Cardinality({t \in Tasks : Present(t)})
          /\ Len(ProgressLines) = Len(scores)

C13_Witness ==
    /\ Returned
    /\ Len(cfg_list) = 2
    /\ Failed(1)
    /\ Present(2)
    /\ ProgressLines = <<ProgressLine(task[2].key, task[2].ret[2])>>

\* C14: in parallel mode a fit that never returns holds its own worker only:
\* once a call has stalled, every other candidate is eventually evaluated.
\* It fails where cpu_count() is 1: the pool has one worker, the stalled call
\* holds it, and the candidates after it are never begun.
C14_StallBlocksOnlyItsWorker ==
    (\E t \in Tasks : task[t].st = "stalled")
        ~> (\A t \in Tasks : task[t].st \in {"stalled", "returned"})

\* one core: the first call is stalled and no step is possible, the other
\* candidates are still pending
BatchBlockedByStall ==
    /\ parallel
    /\ cores = 1
    /\ task[1].st = "stalled"
    /\ \A t \in Tasks : t # 1 => task[t].st = "pending"
    /\ ~ENABLED Progress

\* cpu_count cores: the first call is stalled and every other candidate,
\* more of them than the remaining workers, has returned
OthersEvaluatedDespiteStall ==
    /\ cores = cpu_count
    /\ task[1].st = "stalled"
    /\ \A t \in Tasks : t # 1 => task[t].st = "returned"
    /\ \E t \in Tasks : Present(t)

\* C15: the evaluations share no mutable state. A step of one call changes
\* the record of that call only; the series, n_test and the configurations
\* never change; a call starts from a history equal to the train partition
\* and afterwards only appends the next test observation to it; what a call
\* returns is what its configuration gives when it is evaluated alone.
C15_Step ==
    /\ data' = data
    /\ n_test' = n_test
    /\ cfg_list' = cfg_list
    /\ DOMAIN task' = DOMAIN task
    /\ \A t \in Tasks :
          /\ task'[t].cfg = cfg_list[t]
          /\ task'[t] # task[t] => \A u \in Tasks : u # t => task'[u] = task[u]
          /\ task[t].st = "pending" /\ task'[t].st # "pending"
                => task'[t].history = train_test_split(data, n_test)[1]
          /\ task[t].st # "pending" /\ task'[t].history # task[t].history
                => /\ task[t].i < Len(task[t].test)
                   /\ task'[t].history = Append(task[t].history, task[t].test[task[t].i + 1])
          /\ task'[t].st = "returned" => task'[t].ret = SequentialScore(cfg_list[t], fits')

C15_NoSharedState == [][C15_Step]_vars

\* two calls under way at once, at different steps of their walks
C15_Witness ==
    /\ parallel
    /\ Len(cfg_list) = 2
    /\ task[1].st = "running"
    /\ task[2].st = "running"
    /\ task[1].i = 0
    /\ task[2].i = 1
    /\ task[1].history # task[2].history

\* the records returned for the k-th half of the candidate list, ranked as
\* grid_search ranks them
RankedHalf(k) ==
    LET h == Len(cfg_list) \div 2
    IN  SortByError(RemoveEmpty([t \in 1..h |-> task[t + k * h].ret]))

\* C16: the same configuration evaluated again on the same series and n_test
\* has the same outcome, the same error or absent both times; and when the
\* candidate list is one list twice over, the two searches it contains give
\* the same ranked result.
C16_Deterministic ==
    /\ \A t, u \in Tasks :
          /\ cfg_list[t] = cfg_list[u]
          /\ task[t].st = "returned"
          /\ task[u].st = "returned"
          => /\ task[t].ret = task[u].ret
             /\ task[t].predictions = task[u].predictions
    /\ /\ Returned
       /\ Len(cfg_list) % 2 = 0
       /\ \A t \in 1..(Len(cfg_list) \div 2) :
             cfg_list[t] = cfg_list[t + Len(cfg_list) \div 2]
       => RankedHalf(0) = RankedHalf(1)

C16_Witness ==
    /\ Returned
    /\ Len(cfg_list) = 2
    /\ cfg_list[1] = cfg_list[2]
    /\ done_order = <<2, 1>>
    /\ Present(1)
    /\ Len(task[1].predictions) = 2
    /\ RankedHalf(0) = <<task[2].ret>>

\* C17: the configurations come in the order of six nested loops, trend
\* outermost, then damped, seasonal, seasonal period, power transform, and
\* bias removal innermost: the configuration at a position is given by the
\* mixed-radix digits of the position, the last field varying fastest, and
\* by nothing but the list of seasonal periods.
C17_NestedOrder ==
    pc = "configured" =>
        \A ti \in 0..2, di \in 0..1, si \in 0..2, pi \in 0..(Len(seasonal) - 1),
           bi \in 0..1, ri \in 0..1 :
            models[1 + ri + 2 * (bi + 2 * (pi + Len(seasonal) * (si + 3 * (di + 2 * ti))))]
                = <<t_params[ti + 1], d_params[di + 1], s_params[si + 1],
                    seasonal[pi + 1], b_params[bi + 1], r_params[ri + 1]>>

C17_Witness ==
    /\ pc = "configured"
    /\ seasonal = <<12, 4>>
    /\ models[1] = <<"add", TRUE, "add", 12, TRUE, TRUE>>
    /\ models[2] = <<"add", TRUE, "add", 12, TRUE, FALSE>>
    /\ models[3] = <<"add", TRUE, "add", 12, FALSE, TRUE>>
    /\ models[5] = <<"add", TRUE, "add", 4, TRUE, TRUE>>
    /\ models[9] = <<"add", TRUE, "mul", 12, TRUE, TRUE>>
    /\ models[25] = <<"add", FALSE, "add", 12, TRUE, TRUE>>
    /\ models[49] = <<"mul", TRUE, "add", 12, TRUE, TRUE>>
    /\ models[Len(models)] = <<"None", FALSE, "None", 4, FALSE, FALSE>>

\* C18: every candidate is scored once, and the list grid_search returns is
\* a permutation of the records of the candidates whose evaluation
\* succeeded: as many records as such candidates, each record
\* (str(cfg), error) as often as candidates returned it, and nothing else.
C18_PermutationOfSuccesses ==
    /\ \A t \in Tasks : Occurrences(done_order, t) <= 1
    /\ Returned =>
          /\ \A t \in Tasks : Occurrences(done_order, t) = 1
          /\ Len(scores) = Cardinality({t \in Tasks : Present(t)})
          /\ \A t \in Tasks : Present(t) =>
                /\ task[t].ret[1] = str(cfg_list[t])
                /\ Occurrences(scores, task[t].ret)
                     = Cardinality({u \in Tasks : Present(u) /\ task[u].ret = task[t].ret})
          /\ \A k \in 1..Len(scores) : \E t \in Tasks : Present(t) /\ scores[k] = task[t].ret

\* the same configuration listed twice and scored twice; both records are in
\* the result, under the identifier Python prints for the list
C18_Witness ==
    /\ Returned
    /\ cfg_list = << <<"mul", FALSE, "None", NoPeriod, TRUE, TRUE>>,
                     <<"mul", FALSE, "None", NoPeriod, TRUE, TRUE>> >>
    /\ Len(scores) = 2
    /\ scores[1][1] = "['mul', False, None, None, True, True]"
    /\ scores[1] = scores[2]

\* C19: grid_search filters, sorts and returns only after every call it
\* dispatched has completed: while a call is pending or running there is no
\* ranked result, and once there is one every call has returned.
C19_FinalJoin ==
    /\ (\E t \in Tasks : task[t].st \in {"pending", "running", "scored"})
          => pc = "search" /\ scores = <<>>
    /\ Returned => \A t \in Tasks : task[t].st = "returned"

\* a parallel search at its join: one call has returned a result, the other
\* is still running, and nothing is ranked yet
C19_Witness ==
    /\ parallel
    /\ Len(cfg_list) = 2
    /\ Present(2)
    /\ task[1].st = "running"
    /\ pc = "search"
    /\ scores = <<>>

\* C20: with a finite candidate list and fits that always terminate,
\* grid_search eventually returns, in sequential mode and, the workers being
\* scheduled fairly, in parallel mode.
C20_EventuallyReturns == <>Returned

\* a parallel search that has returned after a failed and a successful call
C20_Witness ==
    /\ Returned
    /\ parallel
    /\ Len(cfg_list) = 2
    /\ ValidSplit
    /\ Failed(1)
    /\ Present(2)

\* the call of candidate t has returned an error of exactly zero: every
\* forecast was the observation
ZeroError(t) == HasResult(t) /\ task[t].result.sq = 0

\* C21: an error of exactly zero is a present result. score_model prints its
\* progress line, and grid_search keeps the record in the list it returns,
\* before every record with a positive error.
C21_ZeroErrorIsPresent ==
    /\ \A t \in Tasks : ZeroError(t) =>
          /\ task[t].predictions = task[t].test
          /\ Occurrences(ProgressLines, ProgressLine(task[t].key, task[t].result))
               = Cardinality({u \in Tasks : ZeroError(u) /\ task[u].key = task[t].key})
          /\ task[t].st = "returned" => task[t].ret = <<task[t].key, task[t].result>>
          /\ Returned => \E k \in 1..Len(scores) : scores[k] = task[t].ret
    /\ \A k, j \in 1..Len(scores) :
          scores[k][2].sq = 0 /\ scores[j][2].sq > 0 => k < j

\* the second candidate forecast every observation, the first did not: the
\* sort has moved the zero error to the front
C21_Witness ==
    /\ Returned
    /\ Len(cfg_list) = 2
    /\ ZeroError(2)
    /\ Len(task[2].predictions) = 2
    /\ Present(1)
    /\ ~ZeroError(1)
    /\ scores = <<task[2].ret, task[1].ret>>

\* a progress line is on stdout while the call that wrote it has not returned
LineBeforeReturn ==
    /\ Len(cfg_list) = 1
    /\ ~parallel
    /\ task[1].st = "scored"
    /\ done_order = <<>>
    /\ ProgressLines = <<ProgressLine(task[1].key, task[1].result)>>

\* two workers: the first call printed first and returned last
LinesNotInReturnOrder ==
    /\ parallel
    /\ done_order = <<2, 1>>
    /\ ProgressLines = <<ProgressLine(task[1].key, task[1].result),
                         ProgressLine(task[2].key, task[2].result)>>

\* two workers: the second call has returned before the first has begun
LaterCallFirst ==
    /\ parallel
    /\ Len(cfg_list) = 2
    /\ task[1].st = "pending"
    /\ task[2].st = "returned"
    /\ done_order = <<2>>

====
